---- MODULE Spec2Model ----
(***************************************************************************)
(* Model of sentry-integration/src/lib.rs: the severity-routing log        *)
(* adapter, the init life cycle, the identity helpers set_user_from_jwt,    *)
(* set_user_from_application_secret and set_user_from_token,               *)
(* and the dual-sink reporter _log_object_storage_error_with_context.      *)
(*                                                                         *)
(* The sentry hub is the hub of the calling thread (configure_scope and    *)
(* with_scope act on Hub::current()); the logical requests of the model    *)
(* are tasks multiplexed on that thread.  init is called once, at start-up,*)
(* before any request runs.                                                *)
(***************************************************************************)
EXTENDS Integers, Sequences, FiniteSets, TLC

\* ------------------------------------------------------------- bounds
MaxReports == 2
MaxLogs == 2
MaxSets == 2
NumRequests == 2

\* ------------------------------------------------------------- Option<T>
None == <<>>
Some(x) == <<x>>
UnwrapOr(o, d) == IF o = None THEN d ELSE o[1]

\* ------------------------------------------------------------- input sets
Requests == 1..NumRequests
CrateNames == {"hook0_api", "output_worker"}
Targets == {"hook0_api", "actix_web"}
Levels == {"Error", "Warn", "Info", "Debug", "Trace"}
Dsns == {None, Some("https://key@sentry.example/1")}
\* f32 sample rates, in hundredths
SampleRates == {None, Some(50)}
\* RUST_LOG, read by env_logger::Env::default()
RustLogs == {None, Some("Error")}
Ids == {"u1", "t1"}
StaticMsgs == {"disk full", "bucket unreachable"}
ErrorChains == {"io: ENOSPC"}
ObjectKeys == {None, Some("k1")}
Prefixes == {None, Some("p/")}

\* log::Level as usize (Error = 1 .. Trace = 5); LevelFilter::Off = 0
LevelOrd(l) ==
    CASE l = "Off" -> 0
      [] l = "Error" -> 1
      [] l = "Warn" -> 2
      [] l = "Info" -> 3
      [] l = "Debug" -> 4
      [] l = "Trace" -> 5

VARIABLES
    rust_log,      \* the RUST_LOG environment variable (Option<level>)
    transportUp,   \* whether the remote transport delivers events
    stderrUp,      \* whether the local log stream accepts writes
    logger,        \* the global logger installed with the log crate
    max_level,     \* log::max_level()
    client,        \* the sentry client bound by sentry::init (Option)
    initArgs,      \* the arguments of the init call (Option)
    initResult,    \* "not_called" | "returned" | "panicked"
    initTrace,     \* the side effects of init, in program order
    guard,         \* the Option<ClientInitGuard> init returned: "none" | "held" | "dropped"
    flushes,       \* number of flushes of the remote backend
    stack,         \* the scope stack of the current hub; its top is the last element
    events,        \* events submitted to the remote backend, in order
    localLog,      \* the log calls of the program, in order, each with what became of it
    claim,         \* per request: the principal it authenticated as (Option)
    lastSet,       \* kind and id of the last set_user call (Option)
    sameAsPrev,    \* the last set_user call repeated the one before it
    lastReport,    \* the arguments of the last reporter call (Option)
    nReports, nLogs, nSets

vars == <<rust_log, transportUp, stderrUp, logger, max_level, client, initArgs,
          initResult, initTrace, guard, flushes, stack, events, localLog, claim,
          lastSet, sameAsPrev, lastReport, nReports, nLogs, nSets>>

\* ------------------------------------------------------------- logging
\* the builder defaulting to "error"
mk_log_builder_error(env) == [kind |-> "env", filter |-> UnwrapOr(env, "Error"), home |-> ""]

\* mk_log_builder: env_logger built from RUST_LOG, "info" when it is unset
mk_log_builder(env) == [kind |-> "env", filter |-> UnwrapOr(env, "Info"), home |-> ""]

\* the filter with its first two arms swapped: the home origin wins over Error
LogFilterHomeFirst(crate_name, target, level) ==
    IF target = crate_name THEN "Breadcrumb"
    ELSE IF level = "Error" THEN "Event"
    ELSE IF level = "Warn" \/ level = "Info" THEN "Breadcrumb"
    ELSE "Ignore"

\* the closure given to SentryLogger::filter
LogFilter(crate_name, target, level) ==
    IF level = "Error" THEN "Event"
    ELSE IF target = crate_name THEN "Breadcrumb"
    ELSE IF level = "Warn" \/ level = "Info" THEN "Breadcrumb"
    ELSE "Ignore"

EmptyScope == [user |-> None, extra |-> {}, breadcrumbs |-> <<>>]

Top(stk) == stk[Len(stk)]

\* Scope::set_extra: insert or overwrite one key of the extra map
SetExtra(extra, k, v) == {p \in extra : p[1] # k} \cup {<<k, v>>}

\* the hub applies its top scope to the event and hands it to the client
CaptureEvent(evs, stk, cl, up, ev) ==
    Append(evs, [ev EXCEPT !.user = Top(stk).user,
                           !.extra = Top(stk).extra,
                           !.sent = (cl # None /\ cl[1].enabled /\ ~cl[1].closed /\ up)])

AddBreadcrumb(stk, rec) ==
    [stk EXCEPT ![Len(stk)].breadcrumbs =
        Append(@, [level |-> rec.level, category |-> rec.target, message |-> rec.args])]

\* env_logger: a record is written when its level passes the filter
DestLog(log, lg, up, rec, routed) ==
    Append(log, [rec EXCEPT !.routed = routed,
                            !.written = (LevelOrd(rec.level) <= LevelOrd(lg.filter) /\ up)])

\* log::logger().log(record) on the installed logger: st is the record
\* [events, stack, localLog] the call acts on.  The no-op logger of an
\* uninitialised process drops the record.
LoggerLog(st, lg, cl, tUp, sUp, rec) ==
    IF lg.kind = "nop" THEN [st EXCEPT !.localLog = Append(@, rec)]
    ELSE IF lg.kind = "env" THEN
        [st EXCEPT !.localLog = DestLog(@, lg, sUp, rec, "n/a")]
    ELSE
        LET d == LogFilter(lg.home, rec.target, rec.level) IN
        [events |-> IF d = "Event"
                    THEN CaptureEvent(st.events, st.stack, cl, tUp,
                             [level |-> rec.level, message |-> rec.args,
                              logger |-> Some(rec.target), user |-> None,
                              extra |-> {}, sent |-> FALSE,
                              request |-> 0, own |-> None])
                    ELSE st.events,
         stack |-> IF d = "Breadcrumb" THEN AddBreadcrumb(st.stack, rec) ELSE st.stack,
         localLog |-> DestLog(st.localLog, lg, sUp, rec, d)]

\* the log macros (info!, warn!, ...) check log::max_level() first: a record
\* above it never reaches the logger
MacroLog(st, lg, ml, cl, tUp, sUp, rec) ==
    IF LevelOrd(rec.level) <= LevelOrd(ml)
    THEN LoggerLog(st, lg, cl, tUp, sUp, rec)
    ELSE [st EXCEPT !.localLog = Append(@, rec)]

Record(level, target, args, file, line) ==
    [level |-> level, target |-> target, args |-> args, module_path |-> target,
     file |-> file, line |-> line, routed |-> "n/a", written |-> FALSE]

\* ------------------------------------------------------------- init
\* the sample rate defaulting to 1.0 instead of 0.0
TracesSampleRateFull(rate) == UnwrapOr(rate, 100)

\* traces_sample_rate.unwrap_or(0.0)
TracesSampleRate(rate) == UnwrapOr(rate, 0)

ClientOptions(dsn, rate, enabled) ==
    [dsn |-> dsn, send_default_pii |-> TRUE, attach_stacktrace |-> TRUE,
     debug |-> TRUE, traces_sample_rate |-> TracesSampleRate(rate),
     enabled |-> enabled, closed |-> FALSE]

\* init_sentry_logger: the adapter around mk_log_builder().build()
SentryLogger(crate_name, env) ==
    [kind |-> "sentry", filter |-> mk_log_builder(env).filter, home |-> crate_name]

Init ==
    /\ rust_log \in RustLogs
    /\ transportUp \in BOOLEAN
    /\ stderrUp \in BOOLEAN
    /\ logger = [kind |-> "nop", filter |-> "Off", home |-> ""]
    /\ max_level = "Off"
    /\ client = None
    /\ initArgs = None
    /\ initResult = "not_called"
    /\ initTrace = <<>>
    /\ guard = "none"
    /\ flushes = 0
    /\ stack = <<EmptyScope>>
    /\ events = <<>>
    /\ localLog = <<>>
    /\ claim = [r \in Requests |-> None]
    /\ lastSet = None
    /\ sameAsPrev = FALSE
    /\ lastReport = None
    /\ nReports = 0
    /\ nLogs = 0
    /\ nSets = 0

St == [events |-> events, stack |-> stack, localLog |-> localLog]

\* the enabled check dropped: init returns whatever the client says
InitOutcomeUnchecked(enabled) == "returned"

\* if client.is_enabled() { info!(..) } else { unreachable!() }
InitOutcome(enabled) == IF enabled THEN "returned" ELSE "panicked"

\* init, sentry_dsn = Some(dsn): enabled is what client.is_enabled() answers
init_some(crate_name, dsn, rate, enabled) ==
    LET lg == SentryLogger(crate_name, rust_log)
        cl == Some(ClientOptions(dsn, rate, enabled))
        st == MacroLog(St, lg, "Trace", cl, transportUp, stderrUp,
                  Record("Info", "sentry_integration",
                         "Sentry integration initialized", "lib.rs", 57))
    IN
    /\ logger.kind = "nop"     \* set_boxed_logger(..).unwrap() succeeds
    /\ logger' = lg
    /\ max_level' = "Trace"
    /\ client' = cl
    /\ IF InitOutcome(enabled) = "returned"
       THEN /\ events' = st.events
            /\ stack' = st.stack
            /\ localLog' = st.localLog
            /\ initTrace' = <<"set_boxed_logger", "set_max_level", "sentry::init", "info">>
            /\ initResult' = "returned"
            /\ guard' = "held"
       ELSE /\ UNCHANGED <<events, stack, localLog>>
            /\ initTrace' = <<"set_boxed_logger", "set_max_level", "sentry::init", "unreachable">>
            /\ initResult' = "panicked"
            /\ guard' = "none"

\* init, sentry_dsn = None
init_none ==
    LET lg == mk_log_builder(rust_log)
        st == MacroLog(St, lg, lg.filter, client, transportUp, stderrUp,
                  Record("Warn", "sentry_integration",
                         "Could not initialize Sentry integration", "lib.rs", 66))
    IN
    /\ logger.kind = "nop"     \* Builder::init() succeeds
    /\ logger' = lg
    /\ max_level' = lg.filter
    /\ events' = st.events
    /\ stack' = st.stack
    /\ localLog' = st.localLog
    /\ initTrace' = <<"set_boxed_logger", "set_max_level", "warn">>
    /\ initResult' = "returned"
    /\ guard' = "none"
    /\ UNCHANGED client

\* one call of init, at start-up
init ==
    /\ initResult = "not_called"
    /\ \E crate_name \in CrateNames, dsn \in Dsns, rate \in SampleRates :
        /\ initArgs' = Some([crate_name |-> crate_name, sentry_dsn |-> dsn,
                             traces_sample_rate |-> rate])
        /\ IF dsn # None
           THEN \E enabled \in BOOLEAN : init_some(crate_name, dsn[1], rate, enabled)
           ELSE init_none
    /\ UNCHANGED <<rust_log, transportUp, stderrUp, flushes, claim, lastSet,
                   sameAsPrev, lastReport, nReports, nLogs, nSets>>

\* the guard is dropped: ClientInitGuard's Drop closes the client, which
\* flushes the transport; the client delivers nothing afterwards
DropGuard ==
    /\ guard = "held"
    /\ guard' = "dropped"
    /\ flushes' = flushes + 1
    /\ client' = Some([client[1] EXCEPT !.closed = TRUE])
    /\ UNCHANGED <<rust_log, transportUp, stderrUp, logger, max_level, initArgs,
                   initResult, initTrace, stack, events, localLog, claim, lastSet,
                   sameAsPrev, lastReport, nReports, nLogs, nSets>>

\* the process has started and has not aborted
Running == initResult = "returned"

\* ------------------------------------------------------------- identity
AUTH_TYPE_PROPERTY == "auth_type"

\* User { id: Some(id), other: {auth_type: <kind>}, ..Default::default() }
User(id, auth_type) ==
    [id |-> Some(id), username |-> None, email |-> None, ip_address |-> None,
     other |-> {<<AUTH_TYPE_PROPERTY, auth_type>>}]

\* the user set on a new scope pushed on the stack, not on the current one
PushScopeSetUser(stk, u) == Append(stk, [Top(stk) EXCEPT !.user = u])

\* configure_scope(|scope| scope.set_user(u)): acts on the top scope of the hub
ConfigureScopeSetUser(stk, u) == [stk EXCEPT ![Len(stk)].user = u]

set_user_from_jwt(stk, id) == ConfigureScopeSetUser(stk, Some(User(id, "jwt")))

set_user_from_application_secret(stk, application_id) ==
    ConfigureScopeSetUser(stk, Some(User(application_id, "application_secret")))

\* the token helper tagging its user "jwt"
set_user_from_token_as_jwt(stk, token_id) ==
    ConfigureScopeSetUser(stk, Some(User(token_id, "jwt")))

set_user_from_token(stk, token_id) ==
    ConfigureScopeSetUser(stk, Some(User(token_id, "token")))

\* what a set_user call of request r leaves besides the scope
SetUserFrame(r, kind, id) ==
    /\ Running
    /\ nSets < MaxSets
    /\ nSets' = nSets + 1
    /\ claim' = [claim EXCEPT ![r] = Some(<<kind, id>>)]
    /\ sameAsPrev' = (lastSet = Some(<<kind, id>>))
    /\ lastSet' = Some(<<kind, id>>)
    /\ UNCHANGED <<rust_log, transportUp, stderrUp, logger, max_level, client,
                   initArgs, initResult, initTrace, guard, flushes, events,
                   localLog, lastReport, nReports, nLogs>>

SetUserFromJwt ==
    \E r \in Requests, id \in Ids :
        /\ stack' = set_user_from_jwt(stack, id)
        /\ SetUserFrame(r, "jwt", id)

SetUserFromApplicationSecret ==
    \E r \in Requests, id \in Ids :
        /\ stack' = set_user_from_application_secret(stack, id)
        /\ SetUserFrame(r, "application_secret", id)

SetUserFromToken ==
    \E r \in Requests, id \in Ids :
        /\ stack' = set_user_from_token(stack, id)
        /\ SetUserFrame(r, "token", id)

\* ------------------------------------------------------------- reporter
RECURSIVE JoinTrailing(_, _)
\* a join that writes the separator after every part, the last included
JoinTrailing(parts, sep) ==
    IF parts = <<>> THEN ""
    ELSE parts[1] \o sep \o JoinTrailing(Tail(parts), sep)

RECURSIVE Join(_, _)
\* [String]::join(sep)
Join(parts, sep) ==
    IF parts = <<>> THEN ""
    ELSE IF Len(parts) = 1 THEN parts[1]
    ELSE parts[1] \o sep \o Join(Tail(parts), sep)

\* the detail_parts vector, in push order
DetailParts(error_chain, object_key, prefix) ==
    (IF object_key # None THEN <<"object_key=" \o object_key[1]>> ELSE <<>>)
    \o (IF prefix # None THEN <<"prefix=" \o prefix[1]>> ELSE <<>>)
    \o <<"error_chain=" \o error_chain>>

\* format!("{static_msg} [{}]", detail_parts.join(", "))
Detail(static_msg, error_chain, object_key, prefix) ==
    static_msg \o " [" \o Join(DetailParts(error_chain, object_key, prefix), ", ") \o "]"

\* the scope with_scope pushes: a clone of the top scope with the extras set
ReportScope(stk, error_chain, object_key, prefix) ==
    LET e1 == SetExtra(Top(stk).extra, "error_chain", error_chain)
        e2 == IF object_key # None THEN SetExtra(e1, "object_key", object_key[1]) ELSE e1
        e3 == IF prefix # None THEN SetExtra(e2, "prefix", prefix[1]) ELSE e2
    IN Append(stk, [Top(stk) EXCEPT !.extra = e3])

\* sentry::capture_message(static_msg, Level::Error) inside with_scope
CaptureMessage(evs, stk, cl, up, r, own, static_msg, error_chain, object_key, prefix) ==
    CaptureEvent(evs, ReportScope(stk, error_chain, object_key, prefix), cl, up,
        [level |-> "Error", message |-> static_msg, logger |-> None, user |-> None,
         extra |-> {}, sent |-> FALSE, request |-> r, own |-> own])

\* the local record logged as an error
LocalLevelError == "Error"

\* the level of the local record
LocalLevel == "Warn"

\* the reporter returning early when the remote capture did not go through
ReportResultEarlyReturn(st, lg, cl, tUp, sUp, r, own, module_path, static_msg, error_chain, object_key, prefix) ==
    LET evs == CaptureMessage(st.events, st.stack, cl, tUp, r, own,
                   static_msg, error_chain, object_key, prefix)
        st1 == [st EXCEPT !.events = evs]
    IN IF ~evs[Len(evs)].sent THEN st1
       ELSE LoggerLog(st1, lg, cl, tUp, sUp,
                Record(LocalLevel, module_path,
                       Detail(static_msg, error_chain, object_key, prefix), "storage.rs", 42))

\* _log_object_storage_error_with_context: the state after the remote report
\* (with_scope has popped its scope) and then the local record
ReportResult(st, lg, cl, tUp, sUp, r, own, module_path, static_msg, error_chain, object_key, prefix) ==
    LET st1 == [st EXCEPT !.events = CaptureMessage(st.events, st.stack, cl, tUp, r, own,
                                         static_msg, error_chain, object_key, prefix)]
    IN LoggerLog(st1, lg, cl, tUp, sUp,
           Record(LocalLevel, module_path,
                  Detail(static_msg, error_chain, object_key, prefix), "storage.rs", 42))

\* one call of the reporter by request r, its arguments drawn from the given sets
ReportWith(Rs, Mods, Msgs, Chains, Keys, Pfxs) ==
    /\ Running
    /\ nReports < MaxReports
    /\ \E r \in Rs, module_path \in Mods, static_msg \in Msgs,
          error_chain \in Chains, object_key \in Keys, prefix \in Pfxs :
        LET st == ReportResult(St, logger, client, transportUp, stderrUp, r, claim[r],
                      module_path, static_msg, error_chain, object_key, prefix)
        IN /\ events' = st.events
           /\ stack' = st.stack
           /\ localLog' = st.localLog
           /\ lastReport' = Some([static_msg |-> static_msg, error_chain |-> error_chain,
                                  object_key |-> object_key, prefix |-> prefix,
                                  module_path |-> module_path, request |-> r])
    /\ nReports' = nReports + 1
    /\ UNCHANGED <<rust_log, transportUp, stderrUp, logger, max_level, client, initArgs,
                   initResult, initTrace, guard, flushes, claim, lastSet, sameAsPrev,
                   nLogs, nSets>>

Report == ReportWith(Requests, Targets, StaticMsgs, ErrorChains, ObjectKeys, Prefixes)

\* the reporter called by one request, over every combination of attributes
ReportAttrs == ReportWith({1}, Targets, StaticMsgs, ErrorChains, ObjectKeys, Prefixes)

\* the reporter called by the first request, with one fixed error
ReportOne == ReportWith({1}, {"hook0_api"}, {"disk full"}, {"io: ENOSPC"}, {None}, {None})

\* the reporter called by any request, with one fixed error
ReportPlain == ReportWith(Requests, {"hook0_api"}, {"disk full"}, {"io: ENOSPC"}, {None}, {None})

\* ------------------------------------------------------------- application log lines
\* a log macro of the application (error!, warn!, info!, debug!, trace!)
LogLine ==
    /\ Running
    /\ nLogs < MaxLogs
    /\ \E target \in Targets, level \in Levels :
        LET st == MacroLog(St, logger, max_level, client, transportUp, stderrUp,
                      Record(level, target, "request handled", "app.rs", 7))
        IN /\ events' = st.events
           /\ stack' = st.stack
           /\ localLog' = st.localLog
    /\ nLogs' = nLogs + 1
    /\ UNCHANGED <<rust_log, transportUp, stderrUp, logger, max_level, client, initArgs,
                   initResult, initTrace, guard, flushes, claim, lastSet, sameAsPrev,
                   lastReport, nReports, nSets>>

\* ------------------------------------------------------------- specifications
\* the whole program
Next ==
    \/ init
    \/ DropGuard
    \/ SetUserFromJwt
    \/ SetUserFromApplicationSecret
    \/ SetUserFromToken
    \/ Report
    \/ LogLine

Spec == Init /\ [][Next]_vars

\* start-up, shutdown and the routing of the application's log lines
NextLifecycle ==
    \/ init
    \/ DropGuard
    \/ LogLine

SpecLifecycle == Init /\ [][NextLifecycle]_vars

\* start-up and the reporter, in every environment
NextReporter ==
    \/ init
    \/ ReportAttrs

SpecReporter == Init /\ [][NextReporter]_vars

\* the default environment: RUST_LOG unset, both sinks working
InitDefaultEnv ==
    /\ Init
    /\ rust_log = None
    /\ transportUp
    /\ stderrUp

\* start-up, the identity helpers and requests that report
NextRequests ==
    \/ init
    \/ SetUserFromJwt
    \/ SetUserFromApplicationSecret
    \/ SetUserFromToken
    \/ ReportPlain

SpecRequests == InitDefaultEnv /\ [][NextRequests]_vars

\* start-up, the identity helpers and one request that reports
NextIdentity ==
    \/ init
    \/ SetUserFromJwt
    \/ SetUserFromApplicationSecret
    \/ SetUserFromToken
    \/ ReportOne

SpecIdentity == InitDefaultEnv /\ [][NextIdentity]_vars

\* ------------------------------------------------------------- claims
Last(q) == q[Len(q)]
Indices(q) == 1..Len(q)
\* the records the reporter handed to the logger, in order
ReporterRecords == SelectSeq(localLog, LAMBDA rec : rec.file = "storage.rs")
InitCalled == initArgs # None
HomeOrigin == initArgs[1].crate_name
DsnGiven == initArgs[1].sentry_dsn # None
\* the records of a given message handed to the logger
RecordsSaying(msg) == {i \in Indices(localLog) : localLog[i].args = msg}

\* C1: the filter installed by init routes every record by the first matching
\* rule: Error -> Event for any origin (the home origin included); else the
\* home origin -> Breadcrumb for every other severity; else Warn or Info ->
\* Breadcrumb; else Debug or Trace -> Ignore; every record gets one decision.
C1_FilterPolicy ==
    (InitCalled /\ DsnGiven) =>
        \A i \in Indices(localLog) :
            LET rec == localLog[i] IN
            /\ rec.routed \in {"Event", "Breadcrumb", "Ignore"}
            /\ rec.level = "Error" => rec.routed = "Event"
            /\ (rec.level # "Error" /\ rec.target = HomeOrigin) => rec.routed = "Breadcrumb"
            /\ (rec.level \in {"Warn", "Info"} /\ rec.target # HomeOrigin)
                   => rec.routed = "Breadcrumb"
            /\ (rec.level \in {"Debug", "Trace"} /\ rec.target # HomeOrigin)
                   => rec.routed = "Ignore"

\* C1 witness: an Error of the home origin became an Event and a Trace of the
\* home origin a Breadcrumb
C1_Witness ==
    /\ InitCalled /\ DsnGiven
    /\ \E i, j \in Indices(localLog) :
        /\ localLog[i].target = HomeOrigin /\ localLog[i].level = "Error"
        /\ localLog[i].routed = "Event"
        /\ localLog[j].target = HomeOrigin /\ localLog[j].level = "Trace"
        /\ localLog[j].routed = "Breadcrumb"

\* C2: after any sequence of set_user calls the hub holds one scope whose user
\* is exactly the claim of the last call: its id, its auth_type, nothing else.
C2_LastClaimOnly ==
    /\ Len(stack) = 1
    /\ lastSet = None => stack[1].user = None
    /\ lastSet # None =>
           stack[1].user = Some([id |-> Some(lastSet[1][2]), username |-> None,
                                 email |-> None, ip_address |-> None,
                                 other |-> {<<"auth_type", lastSet[1][1]>>}])

\* C2 witness: from_jwt("u1") then from_token("t1") happened
C2_Witness ==
    /\ nSets = 2
    /\ claim[1] = Some(<<"jwt", "u1">>)
    /\ lastSet = Some(<<"token", "t1">>)
    /\ stack[1].user # None
    /\ stack[1].user[1].id = Some("t1")

\* C3: every reporter call produces exactly one remote event, of severity
\* Error with the static message as its message, and exactly one local record,
\* of severity Warn: after n calls there are n events and n records.
C3_OneEventOneRecord ==
    /\ Len(events) = nReports
    /\ Len(ReporterRecords) = nReports
    /\ \A i \in Indices(events) :
        /\ events[i].level = "Error"
        /\ events[i].message \in StaticMsgs
        /\ events[i].logger = None
    /\ \A i \in Indices(ReporterRecords) : ReporterRecords[i].level = "Warn"
    /\ lastReport # None => Last(events).message = lastReport[1].static_msg

\* C3 witness: two calls through the adapter, the last with both attributes
C3_Witness ==
    /\ nReports = 2
    /\ logger.kind = "sentry"
    /\ lastReport[1].object_key # None
    /\ lastReport[1].prefix # None
    /\ Len(events) = 2

\* C4: the local line is "{static_msg} [{parts}]", parts being object_key=..
\* if present, then prefix=.. if present, then error_chain=.. last, joined
\* with ", ", in each of the four present/absent combinations.
C4_DetailLine ==
    lastReport # None =>
        LET a == lastReport[1]
            line == Last(localLog).args
            chain == "error_chain=" \o a.error_chain
        IN
        /\ (a.object_key = None /\ a.prefix = None)
               => line = a.static_msg \o " [" \o chain \o "]"
        /\ (a.object_key # None /\ a.prefix = None)
               => line = a.static_msg \o " [object_key=" \o a.object_key[1] \o ", "
                             \o chain \o "]"
        /\ (a.object_key = None /\ a.prefix # None)
               => line = a.static_msg \o " [prefix=" \o a.prefix[1] \o ", " \o chain \o "]"
        /\ (a.object_key # None /\ a.prefix # None)
               => line = a.static_msg \o " [object_key=" \o a.object_key[1]
                             \o ", prefix=" \o a.prefix[1] \o ", " \o chain \o "]"

\* C4 witness: the two lines the specification gives as examples
C4_Witness ==
    /\ Len(ReporterRecords) = 2
    /\ ReporterRecords[1].args = "disk full [object_key=k1, prefix=p/, error_chain=io: ENOSPC]"
    /\ ReporterRecords[2].args = "disk full [error_chain=io: ENOSPC]"

\* C5: the two sinks are served independently: the k-th call leaves its event
\* and its record whatever became of the other one (an event that was not
\* delivered, a record that was not written).
C5_IndependentSinks ==
    \A k \in 1..nReports :
        /\ k \in Indices(events)
        /\ k \in Indices(ReporterRecords)
        /\ events[k].level = "Error"
        /\ ReporterRecords[k].level = "Warn"
        /\ \E c \in ErrorChains, key \in ObjectKeys, pfx \in Prefixes :
               ReporterRecords[k].args = Detail(events[k].message, c, key, pfx)

\* C5 witness: a call whose event was not delivered and whose line was written,
\* after one whose event was not delivered either
C5_Witness ==
    /\ nReports = 2
    /\ client # None
    /\ ~transportUp
    /\ ~Last(events).sent
    /\ Last(ReporterRecords).written

\* C6: the event delivered for a request that has set its identity carries
\* that identity, never the one another request set.
C6_NoIdentityLeak ==
    \A i \in Indices(events) :
        (events[i].request # 0 /\ events[i].own # None /\ events[i].sent) =>
            events[i].user = Some(User(events[i].own[1][2], events[i].own[1][1]))

\* C7: init without a DSN returns no guard, installs only the plain logger,
\* whose minimum severity is Info unless RUST_LOG overrides it, initialises
\* neither the backend nor the adapter, logs one warning and returns.
C7_LocalOnly ==
    (InitCalled /\ ~DsnGiven) =>
        /\ initResult = "returned"
        /\ guard = "none"
        /\ flushes = 0
        /\ logger.kind = "env"
        /\ logger.filter = (IF rust_log = None THEN "Info" ELSE rust_log[1])
        /\ max_level = logger.filter
        /\ client = None
        /\ events = <<>>
        /\ Cardinality(RecordsSaying("Could not initialize Sentry integration")) = 1
        /\ localLog[1].args = "Could not initialize Sentry integration"
        /\ localLog[1].level = "Warn"
        /\ localLog[1].routed = "n/a"
        /\ localLog[1].written = (LevelOrd("Warn") <= LevelOrd(logger.filter) /\ stderrUp)
        /\ \A i \in Indices(localLog) : localLog[i].routed = "n/a"

\* C7 witness: init(home, None, None) in the default environment has returned
C7_Witness ==
    /\ InitCalled /\ ~DsnGiven
    /\ initArgs[1].traces_sample_rate = None
    /\ rust_log = None
    /\ initResult = "returned"
    /\ logger.filter = "Info"
    /\ localLog[1].written

\* the place of an effect in the trace of init (0 when absent)
PlaceOf(effect) ==
    IF \E i \in Indices(initTrace) : initTrace[i] = effect
    THEN CHOOSE i \in Indices(initTrace) : initTrace[i] = effect
    ELSE 0

\* C8: init with a DSN installs the adapter, with the crate name as home origin,
\* before it initialises the backend, gives the backend the supplied sample
\* rate (0 when unset), returns a guard exactly when the client is enabled, and
\* a dropped guard has flushed the backend.
C8_BackendLifecycle ==
    /\ (InitCalled /\ DsnGiven) =>
        /\ logger.kind = "sentry"
        /\ logger.home = HomeOrigin
        /\ 0 < PlaceOf("set_boxed_logger")
        /\ PlaceOf("set_boxed_logger") < PlaceOf("sentry::init")
        /\ client # None
        /\ client[1].traces_sample_rate =
               (IF initArgs[1].traces_sample_rate = None THEN 0
                ELSE initArgs[1].traces_sample_rate[1])
        /\ client[1].enabled => guard # "none"
    /\ guard # "none" => (InitCalled /\ DsnGiven /\ client[1].enabled /\ initResult = "returned")
    /\ guard = "dropped" => (flushes = 1 /\ client[1].closed)
    /\ guard # "dropped" => flushes = 0

\* C8 witness: init(home, Some(dsn), None) returned a guard, which was dropped
C8_Witness ==
    /\ InitCalled /\ DsnGiven
    /\ initArgs[1].traces_sample_rate = None
    /\ guard = "dropped"
    /\ flushes = 1

\* C9: a set_user call that repeats the one before it leaves the hub's scopes
\* as they were.
C9_Idempotent ==
    [][(nSets' = nSets + 1 /\ lastSet' = lastSet) => stack' = stack]_vars

\* C9 witness: the same call was made twice in a row
C9_Witness ==
    /\ nSets = 2
    /\ sameAsPrev
    /\ lastSet = Some(<<"token", "t1">>)

\* C10: init with a DSN whose client says it is not enabled panics: no guard,
\* no confirmation logged, no plain logger installed; and init panics in no
\* other case.
C10_DisabledIsFatal ==
    /\ (InitCalled /\ DsnGiven /\ ~client[1].enabled) =>
        /\ initResult = "panicked"
        /\ guard = "none"
        /\ RecordsSaying("Sentry integration initialized") = {}
        /\ logger.kind # "env"
    /\ initResult = "panicked" => (InitCalled /\ DsnGiven /\ ~client[1].enabled)

\* C10 witness: init was given a DSN and the client was not enabled
C10_Witness ==
    /\ InitCalled /\ DsnGiven
    /\ ~client[1].enabled
    /\ initResult = "panicked"
====
